---- MODULE Spec2Model ----
(***************************************************************************)
(* Khatm reading-schedule backend (quran-app/backend/routers/khatm.py).    *)
(*                                                                         *)
(* The state is the content of the two tables the router writes, khatms    *)
(* and khatm_sessions, plus the response of the last request.  Each        *)
(* request handler is one action.  Dates are datetimes: a calendar day     *)
(* number and a time of day counted in ticks, TicksPerDay ticks to a day.  *)
(* Day 0 is a Monday.                                                      *)
(***************************************************************************)
EXTENDS Integers, Sequences, FiniteSets, TLC

VARIABLES khatms, khatm_sessions, response,
          users, bookmarks, verse_comments, verse_reports, in_flight

\* in_flight holds, for each thread serving a complete_session request
\* statement by statement, what its Session has loaded and changed so far

\* the tables of the accounts and of what the accounts own besides schedules
accounts == <<users, bookmarks, verse_comments, verse_reports>>

vars == <<khatms, khatm_sessions, response,
          users, bookmarks, verse_comments, verse_reports, in_flight>>

-----------------------------------------------------------------------------
(* Bounds of the model                                                     *)

MaxVerses == 3          \* length of the verse corpus
TicksPerDay == 2        \* resolution of the time of day
MaxEndDay == 8          \* latest end_date day of a creation request
MaxOverflowSlack == 8   \* days between MaxEndDay and datetime.max
MaxUsers == 1           \* authenticated users

NULL == "None"

\* NULL in a text column, None in an Optional[str]
NoText == {}

\* an Optional[int]: None is the empty set and a value v is {v}, so that the
\* two compare
NoId == {}

SomeId(v) == {v}

\* a Python str that holds the decimal digits of n
Str(n) == [str |-> n]

\* int(s) of such a string
PyInt(s) == s.str

\* the value the store compares with, or writes to, an INTEGER column when a
\* statement binds such a string: SQLite's column affinity converts it
SqlInteger(s) == s.str

\* Python's == between an int and a str
IntEqualsStr(i, s) == FALSE

\* the "sub" claim of a token, an Optional[str]
NoSub == {}

SubOf(n) == {Str(n)}

-----------------------------------------------------------------------------
(* Python helpers                                                          *)

\* int // int
PyFloorDiv(a, b) == a \div b

\* int % int : the result has the sign of the divisor
PyMod(a, b) == a - b * (a \div b)

Min(a, b) == IF a <= b THEN a ELSE b

MaxOf(S) == CHOOSE x \in S : \A y \in S : y <= x

\* datetime values
DateTime(d, t) == [day |-> d, tod |-> t]

Instant(dt) == dt.day * TicksPerDay + dt.tod

\* (a - b).days : timedelta normalises to whole days rounded down
TimedeltaDays(a, b) == (Instant(a) - Instant(b)) \div TicksPerDay

\* datetime.max, the last representable day
DATETIME_MAX_DAY == MaxEndDay + MaxOverflowSlack

\* current_date.strftime("%a")
StrftimeA(dt) ==
    <<"Mon", "Tue", "Wed", "Thu", "Fri", "Sat", "Sun">>[PyMod(dt.day, 7) + 1]

\* str.lower()
Lower(s) ==
    CASE s = "Mon" -> "mon" [] s = "MON" -> "mon"
      [] s = "Tue" -> "tue" [] s = "Wed" -> "wed" [] s = "Thu" -> "thu"
      [] s = "Fri" -> "fri" [] s = "Sat" -> "sat" [] s = "Sun" -> "sun"
      [] s = "SUN" -> "sun" [] s = "XYZ" -> "xyz"
      [] OTHER -> s

\* day_name in [d.lower() for d in reading_days_list]
DayInList(dt, days) ==
    \E i \in 1..Len(days) : Lower(days[i]) = Lower(StrftimeA(dt))

\* truthiness of Optional[List[str]] : None and [] are falsy
Truthy(days) == days # NULL /\ days # <<>>


-----------------------------------------------------------------------------
(* The verse corpus: the verses table, read-only                           *)

\* khatm.py line 15; the corpus holds exactly this many verses
TOTAL_QURAN_VERSES == MaxVerses

\* db.query(Verse).order_by(Verse.id).all()
all_verses == [i \in 1..TOTAL_QURAN_VERSES |-> [id |-> i]]

\* primary key the store gives the next row of a table: SQLite's rowid, one
\* more than the largest in the table
NextId(table) == IF table = {} THEN 1 ELSE MaxOf({r.id : r \in table}) + 1

-----------------------------------------------------------------------------
(* create_khatm                                                            *)

\* variant of line 57 that tests weekly only
ReadingDaysMissing_WeeklyOnly(data) ==
    data.frequency_type = "weekly" /\ ~Truthy(data.reading_days)

\* line 57: weekly/custom needs reading days
ReadingDaysMissing(data) ==
    data.frequency_type \in {"weekly", "custom"} /\ ~Truthy(data.reading_days)

\* line 64
TotalDays(data) == TimedeltaDays(data.end_date, data.start_date) + 1

\* lines 70-76: the start datetime stepped a day at a time while <= end.
\* Requests end at least MaxOverflowSlack days before datetime.max, so the
\* addition of line 76 does not overflow.
WeeklyCount(data) ==
    Cardinality({k \in 0..(data.end_date.day - data.start_date.day) :
        /\ Instant(DateTime(data.start_date.day + k, data.start_date.tod))
              <= Instant(data.end_date)
        /\ DayInList(DateTime(data.start_date.day + k, data.start_date.tod),
                     data.reading_days)})

\* line 78: the number of non-empty entries of reading_days
CustomCount(data) ==
    IF Truthy(data.reading_days)
    THEN Cardinality({i \in 1..Len(data.reading_days) : data.reading_days[i] # ""})
    ELSE TotalDays(data)

\* lines 66-78
TotalSessions(data) ==
    IF data.frequency_type = "daily" THEN TotalDays(data)
    ELSE IF data.frequency_type = "weekly" THEN WeeklyCount(data)
    ELSE CustomCount(data)

\* lines 87-104 with the column defaults of models.Khatm
NewKhatm(id, user, data, total_sessions) ==
    [id |-> id,
     user_id |-> user,
     start_date |-> data.start_date,
     end_date |-> data.end_date,
     frequency_type |-> data.frequency_type,
     reading_days |-> IF Truthy(data.reading_days) THEN data.reading_days ELSE NULL,
     reading_time |-> data.reading_time,
     total_sessions |-> total_sessions,
     total_verses |-> TOTAL_QURAN_VERSES,
     completed_sessions |-> 0,
     completed_verses |-> 0,
     is_active |-> TRUE,
     is_completed |-> FALSE]

-----------------------------------------------------------------------------
(* generate_khatm_sessions                                                 *)

\* line 132
ReadingDaysList(khatm) ==
    IF Truthy(khatm.reading_days) THEN khatm.reading_days ELSE <<>>

\* lines 136-142
ShouldCreateSession(khatm, current_date) ==
    IF khatm.frequency_type = "daily" THEN TRUE
    ELSE IF khatm.frequency_type \in {"weekly", "custom"}
         THEN DayInList(current_date, ReadingDaysList(khatm))
         ELSE TRUE

\* variant of line 146 that gives the remainder to the last sessions
SessionVerseCount_RemainderLast(khatm, session_number) ==
    PyFloorDiv(khatm.total_verses, khatm.total_sessions)
      + (IF session_number > khatm.total_sessions
                               - PyMod(khatm.total_verses, khatm.total_sessions)
         THEN 1 ELSE 0)

\* line 146
SessionVerseCount(khatm, session_number) ==
    PyFloorDiv(khatm.total_verses, khatm.total_sessions)
      + (IF session_number <= PyMod(khatm.total_verses, khatm.total_sessions)
         THEN 1 ELSE 0)

\* line 147
EndIndex(khatm, session_number, current_verse_index) ==
    Min(current_verse_index + SessionVerseCount(khatm, session_number),
        Len(all_verses))

\* variant of lines 159-173 that schedules every session on the start date
NewSession_OnStartDate(id, khatm, session_number, current_date, current_verse_index, end_index) ==
    [id |-> id,
     khatm_id |-> khatm.id,
     session_number |-> session_number,
     scheduled_date |-> DateTime(khatm.start_date.day, khatm.reading_time),
     start_verse_id |-> all_verses[current_verse_index + 1].id,
     end_verse_id |-> all_verses[end_index].id,
     start_verse_global_number |-> current_verse_index + 1,
     end_verse_global_number |-> end_index,
     verse_count |-> end_index - current_verse_index,
     status |-> "scheduled",
     completed_at |-> NULL,
     skipped_at |-> NULL,
     skipped_reason |-> NULL,
     current_verse_id |-> NoId,
     verses_read_count |-> 0]

\* lines 159-173 with the column defaults of models.KhatmSession
NewSession(id, khatm, session_number, current_date, current_verse_index, end_index) ==
    [id |-> id,
     khatm_id |-> khatm.id,
     session_number |-> session_number,
     scheduled_date |-> DateTime(current_date.day, khatm.reading_time),
     start_verse_id |-> all_verses[current_verse_index + 1].id,
     end_verse_id |-> all_verses[end_index].id,
     start_verse_global_number |-> current_verse_index + 1,
     end_verse_global_number |-> end_index,
     verse_count |-> end_index - current_verse_index,
     status |-> "scheduled",
     completed_at |-> NULL,
     skipped_at |-> NULL,
     skipped_reason |-> NULL,
     current_verse_id |-> NoId,
     verses_read_count |-> 0]

\* variant of line 134 that leaves the loop one verse before the end of the
\* corpus
LoopContinues_StopsEarly(khatm, session_number, current_verse_index) ==
    session_number <= khatm.total_sessions /\ current_verse_index < Len(all_verses) - 1

\* line 134
LoopContinues(khatm, session_number, current_verse_index) ==
    session_number <= khatm.total_sessions /\ current_verse_index < Len(all_verses)

\* lines 134-179: the loop; added are the rows handed to db.add so far.
\* current_date += timedelta(days=1) raises OverflowError past datetime.max,
\* and the rows added are then never committed.
RECURSIVE GenerateLoop(_, _, _, _, _, _)
GenerateLoop(khatm, first_id, session_number, current_verse_index, current_date, added) ==
    IF ~LoopContinues(khatm, session_number, current_verse_index)
    THEN [raised |-> FALSE, sessions |-> added]
    ELSE LET create == ShouldCreateSession(khatm, current_date)
             end_index == EndIndex(khatm, session_number, current_verse_index)
             session == NewSession(first_id + session_number - 1, khatm,
                                   session_number, current_date,
                                   current_verse_index, end_index)
         IN  IF current_date.day + 1 > DATETIME_MAX_DAY
             THEN [raised |-> TRUE, sessions |-> {}]
             ELSE GenerateLoop(khatm, first_id,
                               IF create THEN session_number + 1 ELSE session_number,
                               IF create THEN end_index ELSE current_verse_index,
                               DateTime(current_date.day + 1, current_date.tod),
                               IF create THEN added \cup {session} ELSE added)

\* lines 120-181
generate_khatm_sessions(khatm, first_id) ==
    GenerateLoop(khatm, first_id, 1, 0, khatm.start_date, {})

\* lines 49-118: the whole handler.  The khatm row is committed on line 107,
\* before the sessions are generated.
create_khatm(user, data) ==
    IF ReadingDaysMissing(data)
    THEN /\ response' = [op |-> "create_khatm", status |-> 400,
                         detail |-> "Reading days are required for weekly/custom frequency"]
         /\ UNCHANGED <<khatms, khatm_sessions>>
    ELSE IF TotalSessions(data) = 0
    THEN /\ response' = [op |-> "create_khatm", status |-> 400,
                         detail |-> "No valid reading days found in the selected date range"]
         /\ UNCHANGED <<khatms, khatm_sessions>>
    ELSE LET khatm == NewKhatm(NextId(khatms), user, data, TotalSessions(data))
             gen == generate_khatm_sessions(khatm, NextId(khatm_sessions))
         IN  /\ khatms' = khatms \cup {khatm}
             /\ khatm_sessions' = khatm_sessions \cup gen.sessions
             /\ response' = IF gen.raised
                            THEN [op |-> "create_khatm", status |-> 500,
                                  detail |-> "OverflowError"]
                            ELSE [op |-> "create_khatm", status |-> 200,
                                  id |-> khatm.id,
                                  total_sessions |-> khatm.total_sessions]


-----------------------------------------------------------------------------
(* Session and schedule lookups                                            *)

\* db.query(KhatmSession).join(Khatm).filter(id, khatm_id, owner).first()
FindSession(user, khatm_id, session_id) ==
    {s \in khatm_sessions :
        /\ s.id = session_id
        /\ s.khatm_id = khatm_id
        /\ \E k \in khatms : k.id = s.khatm_id /\ k.user_id = user}

\* variant of the query that does not filter by owner
FindKhatm_AnyOwner(user, khatm_id) ==
    {k \in khatms : k.id = khatm_id}

\* db.query(Khatm).filter(id, owner).first()
FindKhatm(user, khatm_id) ==
    {k \in khatms : k.id = khatm_id /\ k.user_id = user}

\* session.khatm
KhatmOf(session) == CHOOSE k \in khatms : k.id = session.khatm_id

\* khatm.sessions
SessionsOf(khatm_id) == {s \in khatm_sessions : s.khatm_id = khatm_id}

-----------------------------------------------------------------------------
(* complete_session                                                        *)

\* variant of line 400 that compares with a status no session has
AlreadyCompleted_Misspelt(session) == session.status = "complete"

\* line 400
AlreadyCompleted(session) == session.status = "completed"

\* variant of lines 404-407 that leaves the status as it was
CompletedSession_StatusKept(session, completion_data, now) ==
    [session EXCEPT !.completed_at = now,
                    !.verses_read_count = completion_data.verses_read,
                    !.current_verse_id = completion_data.last_verse_id]

\* lines 404-407
CompletedSession(session, completion_data, now) ==
    [session EXCEPT !.status = "completed",
                    !.completed_at = now,
                    !.verses_read_count = completion_data.verses_read,
                    !.current_verse_id = completion_data.last_verse_id]

\* line 415
KhatmFinished(completed_sessions, total_sessions) ==
    completed_sessions >= total_sessions

\* variant of lines 410-417 that credits the verses the session had recorded
\* as read instead of its planned verse_count
ProgressedKhatm_CreditsVersesRead(khatm, session) ==
    LET finished == KhatmFinished(khatm.completed_sessions + 1, khatm.total_sessions)
    IN  [khatm EXCEPT !.completed_sessions = khatm.completed_sessions + 1,
                      !.completed_verses = khatm.completed_verses + session.verses_read_count,
                      !.is_completed = IF finished THEN TRUE ELSE khatm.is_completed,
                      !.is_active = IF finished THEN FALSE ELSE khatm.is_active]

\* lines 410-417
ProgressedKhatm(khatm, session) ==
    LET finished == KhatmFinished(khatm.completed_sessions + 1, khatm.total_sessions)
    IN  [khatm EXCEPT !.completed_sessions = khatm.completed_sessions + 1,
                      !.completed_verses = khatm.completed_verses + session.verse_count,
                      !.is_completed = IF finished THEN TRUE ELSE khatm.is_completed,
                      !.is_active = IF finished THEN FALSE ELSE khatm.is_active]

\* lines 382-428
complete_session(user, khatm_id, session_id, completion_data, now) ==
    LET found == FindSession(user, khatm_id, session_id) IN
    IF found = {}
    THEN /\ response' = [op |-> "complete_session", status |-> 404,
                         detail |-> "Session not found"]
         /\ UNCHANGED <<khatms, khatm_sessions>>
    ELSE LET session == CHOOSE s \in found : TRUE IN
         IF AlreadyCompleted(session)
         THEN /\ response' = [op |-> "complete_session", status |-> 400,
                              detail |-> "Session already completed"]
              /\ UNCHANGED <<khatms, khatm_sessions>>
         ELSE LET khatm == KhatmOf(session)
                  khatm2 == ProgressedKhatm(khatm, session)
              IN  /\ khatm_sessions' = (khatm_sessions \ {session})
                        \cup {CompletedSession(session, completion_data, now)}
                  /\ khatms' = (khatms \ {khatm}) \cup {khatm2}
                  /\ response' = [op |-> "complete_session", status |-> 200,
                                  completed_sessions |-> khatm2.completed_sessions,
                                  total_sessions |-> khatm2.total_sessions]

-----------------------------------------------------------------------------
(* skip_session                                                            *)

\* variant of line 449 that tests the completed status only
AlreadyTerminal_CompletedOnly(session) == session.status = "completed"

\* line 449
AlreadyTerminal(session) == session.status \in {"completed", "skipped"}

\* variant of lines 452-454 that also empties the planned range
SkippedSession_DropsRange(session, skip_data, now) ==
    [session EXCEPT !.status = "skipped",
                    !.skipped_at = now,
                    !.skipped_reason = skip_data.reason,
                    !.verse_count = 0]

\* lines 452-454
SkippedSession(session, skip_data, now) ==
    [session EXCEPT !.status = "skipped",
                    !.skipped_at = now,
                    !.skipped_reason = skip_data.reason]

\* lines 431-458
skip_session(user, khatm_id, session_id, skip_data, now) ==
    LET found == FindSession(user, khatm_id, session_id) IN
    IF found = {}
    THEN /\ response' = [op |-> "skip_session", status |-> 404,
                         detail |-> "Session not found"]
         /\ UNCHANGED <<khatms, khatm_sessions>>
    ELSE LET session == CHOOSE s \in found : TRUE IN
         IF AlreadyTerminal(session)
         THEN /\ response' = [op |-> "skip_session", status |-> 400,
                              detail |-> "Session already", was |-> session.status]
              /\ UNCHANGED <<khatms, khatm_sessions>>
         ELSE /\ khatm_sessions' = (khatm_sessions \ {session})
                    \cup {SkippedSession(session, skip_data, now)}
              /\ response' = [op |-> "skip_session", status |-> 200,
                              detail |-> "Session skipped successfully"]
              /\ UNCHANGED khatms

-----------------------------------------------------------------------------
(* update_khatm and delete_khatm                                           *)

\* lines 477-480: setattr for every field the request sets; of the fields of
\* KhatmUpdate the model keeps reading_time and is_active
PatchedKhatm(khatm, update_data) ==
    [khatm EXCEPT
       !.reading_time = IF "reading_time" \in DOMAIN update_data
                        THEN update_data.reading_time ELSE khatm.reading_time,
       !.is_active = IF "is_active" \in DOMAIN update_data
                     THEN update_data.is_active ELSE khatm.is_active]

\* lines 461-485
update_khatm(user, khatm_id, update_data) ==
    LET found == FindKhatm(user, khatm_id) IN
    IF found = {}
    THEN /\ response' = [op |-> "update_khatm", status |-> 404,
                         detail |-> "Khatm not found"]
         /\ UNCHANGED <<khatms, khatm_sessions>>
    ELSE LET khatm == CHOOSE k \in found : TRUE IN
         /\ khatms' = (khatms \ {khatm}) \cup {PatchedKhatm(khatm, update_data)}
         /\ response' = [op |-> "update_khatm", status |-> 200,
                         detail |-> "Khatm updated successfully"]
         /\ UNCHANGED khatm_sessions

\* variant of the relationship of models.py line 158 without the cascade
CascadeDeleted_Nothing(khatm) == {}

\* models.py line 158, cascade="all, delete-orphan": db.delete(khatm) deletes
\* the sessions of khatm.sessions with it
CascadeDeleted(khatm) == SessionsOf(khatm.id)

\* lines 488-506
delete_khatm(user, khatm_id) ==
    LET found == FindKhatm(user, khatm_id) IN
    IF found = {}
    THEN /\ response' = [op |-> "delete_khatm", status |-> 404,
                         detail |-> "Khatm not found"]
         /\ UNCHANGED <<khatms, khatm_sessions>>
    ELSE LET khatm == CHOOSE k \in found : TRUE IN
         /\ khatms' = khatms \ {khatm}
         /\ khatm_sessions' = khatm_sessions \ CascadeDeleted(khatm)
         /\ response' = [op |-> "delete_khatm", status |-> 200,
                         detail |-> "Khatm deleted successfully"]


-----------------------------------------------------------------------------
(* get_khatm_details, get_session_details and get_khatm_progress           *)

\* lines 228-288: the khatm of the caller and every session with its khatm_id
get_khatm_details(user, khatm_id) ==
    LET found == FindKhatm(user, khatm_id) IN
    /\ response' = IF found = {}
                   THEN [op |-> "get_khatm_details", status |-> 404,
                         detail |-> "Khatm not found"]
                   ELSE [op |-> "get_khatm_details", status |-> 200,
                         khatm |-> CHOOSE k \in found : TRUE,
                         sessions |-> SessionsOf(khatm_id)]
    /\ UNCHANGED <<khatms, khatm_sessions>>

\* lines 325-379
get_session_details(user, khatm_id, session_id) ==
    LET found == FindSession(user, khatm_id, session_id) IN
    /\ response' = IF found = {}
                   THEN [op |-> "get_session_details", status |-> 404,
                         detail |-> "Session not found"]
                   ELSE [op |-> "get_session_details", status |-> 200,
                         session |-> CHOOSE s \in found : TRUE]
    /\ UNCHANGED <<khatms, khatm_sessions>>

\* lines 298-302: the sessions of the user's khatm whose scheduled date is
\* today; today is a calendar day
TodaySessions(user, khatm_id, today) ==
    {s \in khatm_sessions :
        /\ s.khatm_id = khatm_id
        /\ \E k \in khatms : k.id = s.khatm_id /\ k.user_id = user
        /\ s.scheduled_date.day = today}

\* lines 525-532: the number of sessions of the khatm id in each status
SessionStats(khatm_id) ==
    [status \in {"scheduled", "completed", "skipped", "missed"} |->
        Cardinality({s \in SessionsOf(khatm_id) : s.status = status})]

\* lines 509-553
get_khatm_progress(user, khatm_id) ==
    LET found == FindKhatm(user, khatm_id) IN
    /\ response' = IF found = {}
                   THEN [op |-> "get_khatm_progress", status |-> 404,
                         detail |-> "Khatm not found"]
                   ELSE LET khatm == CHOOSE k \in found : TRUE IN
                        [op |-> "get_khatm_progress", status |-> 200,
                         khatm_id |-> khatm.id,
                         total_sessions |-> khatm.total_sessions,
                         completed_sessions |-> khatm.completed_sessions,
                         total_verses |-> khatm.total_verses,
                         completed_verses |-> khatm.completed_verses,
                         session_stats |-> SessionStats(khatm_id),
                         is_active |-> khatm.is_active,
                         is_completed |-> khatm.is_completed]
    /\ UNCHANGED <<khatms, khatm_sessions>>

-----------------------------------------------------------------------------
(* Authentication: auth.py                                                 *)

\* variant of lines 49-55 that reads the payload without verifying the
\* signature
decode_token_Unverified(token) == {[sub |-> token.sub]}

\* auth.py lines 49-55: the payload of a token the application signed, None
\* (the empty set) for any other
decode_token(token) ==
    IF token.signed THEN {[sub |-> token.sub]} ELSE {}

\* auth.py line 82: the row of the users table whose id is int(user_id)
UserOfSub(user_id) == {u \in users : u.id = PyInt(user_id)}

\* variant of auth.py line 91 that takes no account for blocked
Blocked_Never(user) == FALSE

\* auth.py line 91
Blocked(user) == ~user.is_active

\* auth.py lines 58-103 with the HTTPBearer scheme of line 17: the refusals or
\* the current user a request's credentials give; its user_id is the token's
\* subject, a string (line 99).  Without an Authorization
\* header the scheme refuses the request itself, with a 401 or a 403 according
\* to the version of the framework.
get_current_user(credentials) ==
    IF credentials.scheme = "none"
    THEN {[status |-> st, detail |-> "Not authenticated"] : st \in {401, 403}}
    ELSE LET payload == decode_token(credentials) IN
         IF payload = {}
         THEN {[status |-> 401, detail |-> "Invalid authentication credentials"]}
         ELSE LET sub == (CHOOSE pl \in payload : TRUE).sub IN
              IF sub = NoSub
              THEN {[status |-> 401, detail |-> "Invalid authentication credentials"]}
              ELSE LET user_id == CHOOSE x \in sub : TRUE IN
                   IF UserOfSub(user_id) = {}
                   THEN {[status |-> 401, detail |-> "User not found"]}
                   ELSE LET user == CHOOSE u \in UserOfSub(user_id) : TRUE IN
                        IF Blocked(user)
                        THEN {[status |-> 403,
                               detail |-> "Your account has been blocked. Please contact support."]}
                        ELSE {[status |-> 200, user_id |-> user_id,
                               is_admin |-> user.is_admin]}

\* admin.py lines 14-21
require_admin(credentials) ==
    {IF current_user.status = 200 /\ ~current_user.is_admin
     THEN [status |-> 403, detail |-> "Admin access required"]
     ELSE current_user : current_user \in get_current_user(credentials)}

\* the dependency raised: the handler does not run
Refused(op, current_user) ==
    /\ response' = [op |-> op, status |-> current_user.status,
                    detail |-> current_user.detail]
    /\ UNCHANGED <<khatms, khatm_sessions, accounts>>

-----------------------------------------------------------------------------
(* Schedule, bookmark, comment and report requests with their credentials  *)

\* khatm.py lines 184-225
get_user_khatms(credentials, active_only) ==
    \E current_user \in get_current_user(credentials) :
        IF current_user.status # 200 THEN Refused("get_user_khatms", current_user)
        ELSE /\ response' = [op |-> "get_user_khatms", status |-> 200,
                             khatms |-> {k \in khatms :
                                            /\ k.user_id = SqlInteger(current_user.user_id)
                                            /\ (active_only => k.is_active)}]
             /\ UNCHANGED <<khatms, khatm_sessions, accounts>>

\* khatm.py lines 48-53: create_khatm behind its dependency
post_khatm(credentials, data) ==
    \E current_user \in get_current_user(credentials) :
        IF current_user.status # 200 THEN Refused("create_khatm", current_user)
        ELSE create_khatm(SqlInteger(current_user.user_id), data) /\ UNCHANGED accounts

\* bookmarks.py lines 98-137: the verse of every bookmark is unpacked on line
\* 116, which raises for a bookmark of a verse that does not exist
get_bookmarks(credentials) ==
    \E current_user \in get_current_user(credentials) :
        IF current_user.status # 200 THEN Refused("get_bookmarks", current_user)
        ELSE LET mine == {b \in bookmarks : b.user_id = PyInt(current_user.user_id)} IN
             /\ response' =
                   IF \E b \in mine : b.verse_id \notin DOMAIN all_verses
                   THEN [op |-> "get_bookmarks", status |-> 500,
                         detail |-> "TypeError"]
                   ELSE [op |-> "get_bookmarks", status |-> 200, bookmarks |-> mine]
             /\ UNCHANGED <<khatms, khatm_sessions, accounts>>

\* bookmarks.py lines 38-94: the bookmark is committed on line 68, before the
\* verse is looked up and unpacked on line 75
create_bookmark(credentials, bookmark_data) ==
    \E current_user \in get_current_user(credentials) :
        IF current_user.status # 200 THEN Refused("create_bookmark", current_user)
        ELSE LET user_id == PyInt(current_user.user_id)
                 existing == {b \in bookmarks : /\ b.user_id = user_id
                                                /\ b.verse_id = bookmark_data.verse_id}
                 bookmark == [id |-> NextId(bookmarks), user_id |-> user_id,
                              verse_id |-> bookmark_data.verse_id]
             IN  IF existing # {}
                 THEN /\ response' = [op |-> "create_bookmark", status |-> 400,
                                      detail |-> "Verse already bookmarked"]
                      /\ UNCHANGED <<khatms, khatm_sessions, accounts>>
                 ELSE /\ bookmarks' = bookmarks \cup {bookmark}
                      /\ response' =
                            IF bookmark.verse_id \in DOMAIN all_verses
                            THEN [op |-> "create_bookmark", status |-> 200,
                                  id |-> bookmark.id]
                            ELSE [op |-> "create_bookmark", status |-> 500,
                                  detail |-> "TypeError"]
                      /\ UNCHANGED <<khatms, khatm_sessions, users,
                                     verse_comments, verse_reports>>

\* verse_interactions.py lines 79-107
create_comment(credentials, verse_id, comment_data) ==
    \E current_user \in get_current_user(credentials) :
        IF current_user.status # 200 THEN Refused("create_comment", current_user)
        ELSE IF verse_id \notin DOMAIN all_verses
        THEN /\ response' = [op |-> "create_comment", status |-> 404,
                             detail |-> "Verse not found"]
             /\ UNCHANGED <<khatms, khatm_sessions, accounts>>
        ELSE LET comment == [id |-> NextId(verse_comments),
                             user_id |-> SqlInteger(current_user.user_id),
                             verse_id |-> verse_id,
                             content |-> comment_data.content,
                             is_public |-> comment_data.is_public,
                             is_approved |-> TRUE,
                             approved_by |-> NoId,
                             approved_at |-> NULL]
             IN  /\ verse_comments' = verse_comments \cup {comment}
                 /\ response' = [op |-> "create_comment", status |-> 200,
                                 id |-> comment.id]
                 /\ UNCHANGED <<khatms, khatm_sessions, users, bookmarks,
                                verse_reports>>

\* verse_interactions.py lines 188-216
create_report(credentials, verse_id, report_data) ==
    \E current_user \in get_current_user(credentials) :
        IF current_user.status # 200 THEN Refused("create_report", current_user)
        ELSE IF verse_id \notin DOMAIN all_verses
        THEN /\ response' = [op |-> "create_report", status |-> 404,
                             detail |-> "Verse not found"]
             /\ UNCHANGED <<khatms, khatm_sessions, accounts>>
        ELSE LET report == [id |-> NextId(verse_reports),
                            user_id |-> SqlInteger(current_user.user_id),
                            verse_id |-> verse_id,
                            report_type |-> report_data.report_type,
                            status |-> "pending"]
             IN  /\ verse_reports' = verse_reports \cup {report}
                 /\ response' = [op |-> "create_report", status |-> 200,
                                 id |-> report.id]
                 /\ UNCHANGED <<khatms, khatm_sessions, users, bookmarks,
                                verse_comments>>

-----------------------------------------------------------------------------
(* get_verse_comments, update_comment and moderate_comment                 *)

\* verse_interactions.py lines 51-61: the rows the query selects
CommentQuery(verse_id, current_user) ==
    {c \in verse_comments :
        /\ c.verse_id = verse_id
        /\ \/ current_user.is_admin
           \/ c.is_public /\ c.is_approved
           \/ c.user_id = SqlInteger(current_user.user_id)}

\* verse_interactions.py line 66: the test of the loop over the selected
\* rows; comment.user_id is an int and user_id the token's subject
CommentIncluded(comment, current_user) ==
    \/ current_user.is_admin
    \/ comment.is_approved
    \/ IntEqualsStr(comment.user_id, current_user.user_id)

\* verse_interactions.py lines 41-76
get_verse_comments(credentials, verse_id) ==
    \E current_user \in get_current_user(credentials) :
        IF current_user.status # 200 THEN Refused("get_verse_comments", current_user)
        ELSE /\ response' = [op |-> "get_verse_comments", status |-> 200,
                             comments |-> {c \in CommentQuery(verse_id, current_user) :
                                              CommentIncluded(c, current_user)}]
             /\ UNCHANGED <<khatms, khatm_sessions, accounts>>

\* verse_interactions.py lines 110-134
update_comment(credentials, verse_id, comment_id, comment_data) ==
    \E current_user \in get_current_user(credentials) :
        IF current_user.status # 200 THEN Refused("update_comment", current_user)
        ELSE LET found == {c \in verse_comments :
                              /\ c.id = comment_id
                              /\ c.verse_id = verse_id
                              /\ c.user_id = SqlInteger(current_user.user_id)}
             IN  IF found = {}
                 THEN /\ response' = [op |-> "update_comment", status |-> 404,
                                      detail |-> "Comment not found"]
                      /\ UNCHANGED <<khatms, khatm_sessions, accounts>>
                 ELSE LET comment == CHOOSE c \in found : TRUE IN
                      /\ verse_comments' = (verse_comments \ {comment}) \cup
                            {[comment EXCEPT !.content = comment_data.content]}
                      /\ response' = [op |-> "update_comment", status |-> 200,
                                      detail |-> "Comment updated successfully"]
                      /\ UNCHANGED <<khatms, khatm_sessions, users, bookmarks,
                                     verse_reports>>

\* admin.py lines 112-143
moderate_comment(credentials, comment_id, action, now) ==
    \E current_user \in require_admin(credentials) :
        IF current_user.status # 200 THEN Refused("moderate_comment", current_user)
        ELSE LET found == {c \in verse_comments : c.id = comment_id} IN
             IF found = {}
             THEN /\ response' = [op |-> "moderate_comment", status |-> 404,
                                  detail |-> "Comment not found"]
                  /\ UNCHANGED <<khatms, khatm_sessions, accounts>>
             ELSE LET comment == CHOOSE c \in found : TRUE
                      admin_id == SomeId(SqlInteger(current_user.user_id))
                  IN
                  IF action.action \notin {"approve", "decline", "delete"}
                  THEN /\ response' = [op |-> "moderate_comment", status |-> 400,
                                       detail |-> "Invalid action"]
                       /\ UNCHANGED <<khatms, khatm_sessions, accounts>>
                  ELSE /\ verse_comments' =
                             (verse_comments \ {comment}) \cup
                             (IF action.action = "delete" THEN {}
                              ELSE {[comment EXCEPT
                                        !.is_approved = (action.action = "approve"),
                                        !.approved_by = admin_id,
                                        !.approved_at = now]})
                       /\ response' =
                             [op |-> "moderate_comment", status |-> 200,
                              detail |-> CASE action.action = "approve" ->
                                                 "Comment approved successfully"
                                           [] action.action = "decline" ->
                                                 "Comment declined"
                                           [] OTHER -> "Comment deleted"]
                       /\ UNCHANGED <<khatms, khatm_sessions, users, bookmarks,
                                      verse_reports>>

-----------------------------------------------------------------------------
(* delete_user: admin.py                                                   *)

\* admin.py line 404, db.query(Khatm).filter(...).delete(): the rows of the
\* khatms table are deleted by one DELETE statement, which does not go through
\* the relationship of models.py line 158, and the store does not enforce the
\* foreign key of line 168; no session is deleted
BulkDeletedSessions(user_id) == {}

\* admin.py lines 371-426.  The test of line 390 compares the integer id with
\* the token's subject, a string, and comes after the refusal of line 384 for
\* administrators.
delete_user(credentials, user_id) ==
    \E current_user \in require_admin(credentials) :
        IF current_user.status # 200 THEN Refused("delete_user", current_user)
        ELSE LET found == {u \in users : u.id = user_id} IN
             IF found = {}
             THEN /\ response' = [op |-> "delete_user", status |-> 404,
                                  detail |-> "User not found"]
                  /\ UNCHANGED <<khatms, khatm_sessions, accounts>>
             ELSE LET user == CHOOSE u \in found : TRUE IN
                  IF user.is_admin
                  THEN /\ response' = [op |-> "delete_user", status |-> 403,
                                       detail |-> "Cannot delete admin users"]
                       /\ UNCHANGED <<khatms, khatm_sessions, accounts>>
                  ELSE IF IntEqualsStr(user.id, current_user.user_id)
                  THEN /\ response' = [op |-> "delete_user", status |-> 403,
                                       detail |-> "Cannot delete your own account"]
                       /\ UNCHANGED <<khatms, khatm_sessions, accounts>>
                  ELSE /\ bookmarks' = {b \in bookmarks : b.user_id # user_id}
                       /\ khatms' = {k \in khatms : k.user_id # user_id}
                       /\ khatm_sessions' = khatm_sessions \ BulkDeletedSessions(user_id)
                       /\ verse_comments' = {c \in verse_comments : c.user_id # user_id}
                       /\ verse_reports' = {r \in verse_reports : r.user_id # user_id}
                       /\ users' = users \ {user}
                       /\ response' = [op |-> "delete_user", status |-> 200,
                                       user_id |-> user_id, action |-> "deleted"]

-----------------------------------------------------------------------------
(* block_user and unblock_user: admin.py; login: routers/auth.py           *)

\* admin.py lines 316-343
block_user(credentials, user_id) ==
    \E current_user \in require_admin(credentials) :
        IF current_user.status # 200 THEN Refused("block_user", current_user)
        ELSE LET found == {u \in users : u.id = user_id} IN
             IF found = {}
             THEN /\ response' = [op |-> "block_user", status |-> 404,
                                  detail |-> "User not found"]
                  /\ UNCHANGED <<khatms, khatm_sessions, accounts>>
             ELSE LET user == CHOOSE u \in found : TRUE IN
                  IF user.is_admin
                  THEN /\ response' = [op |-> "block_user", status |-> 403,
                                       detail |-> "Cannot block admin users"]
                       /\ UNCHANGED <<khatms, khatm_sessions, accounts>>
                  ELSE /\ users' = (users \ {user})
                                      \cup {[user EXCEPT !.is_active = FALSE]}
                       /\ response' = [op |-> "block_user", status |-> 200,
                                       user_id |-> user_id, action |-> "blocked"]
                       /\ UNCHANGED <<khatms, khatm_sessions, bookmarks,
                                      verse_comments, verse_reports>>

\* admin.py lines 346-367
unblock_user(credentials, user_id) ==
    \E current_user \in require_admin(credentials) :
        IF current_user.status # 200 THEN Refused("unblock_user", current_user)
        ELSE LET found == {u \in users : u.id = user_id} IN
             IF found = {}
             THEN /\ response' = [op |-> "unblock_user", status |-> 404,
                                  detail |-> "User not found"]
                  /\ UNCHANGED <<khatms, khatm_sessions, accounts>>
             ELSE LET user == CHOOSE u \in found : TRUE IN
                  /\ users' = (users \ {user})
                                 \cup {[user EXCEPT !.is_active = TRUE]}
                  /\ response' = [op |-> "unblock_user", status |-> 200,
                                  user_id |-> user_id, action |-> "unblocked"]
                  /\ UNCHANGED <<khatms, khatm_sessions, bookmarks,
                                 verse_comments, verse_reports>>

\* verify_password: the hash of a password matches that password only
verify_password(password, password_hash) == password_hash = {password}

\* routers/auth.py lines 114-164
login(user_data, now) ==
    LET found == {u \in users : u.username = user_data.username} IN
    IF found = {}
    THEN /\ response' = [op |-> "login", status |-> 401,
                         detail |-> "Invalid username or password"]
         /\ UNCHANGED <<khatms, khatm_sessions, accounts>>
    ELSE LET user == CHOOSE u \in found : TRUE IN
         IF user.password_hash = NoText
               \/ ~verify_password(user_data.password, user.password_hash)
         THEN /\ response' = [op |-> "login", status |-> 401,
                              detail |-> "Invalid username or password"]
              /\ UNCHANGED <<khatms, khatm_sessions, accounts>>
         ELSE IF ~user.is_active
         THEN /\ response' = [op |-> "login", status |-> 403,
                              detail |-> "Your account has been blocked. Please contact support."]
              /\ UNCHANGED <<khatms, khatm_sessions, accounts>>
         ELSE /\ users' = (users \ {user}) \cup {[user EXCEPT !.last_login = now]}
              /\ response' = [op |-> "login", status |-> 200,
                              sub |-> Str(user.id), username |-> user.username]
              /\ UNCHANGED <<khatms, khatm_sessions, bookmarks,
                             verse_comments, verse_reports>>

-----------------------------------------------------------------------------
(* complete_session, statement by statement                                *)
(*                                                                         *)
(* The handler is a plain def, so the framework runs every request in a    *)
(* thread of its own, and get_db gives every request a Session of its own. *)
(* A Session keeps the rows it has loaded and writes the attributes the    *)
(* handler changed when it commits.  The connection reads outside a        *)
(* transaction, so every SELECT sees what has been committed by then.      *)

\* the threads that serve requests
Workers == {"a", "b"}

\* a thread that has loaded nothing
Idle == [pc |-> "idle", completion_data |-> {}, session_loaded |-> {},
         session |-> {}, khatm_loaded |-> {}, khatm |-> {}]

\* the UPDATE of a commit: the columns whose value the handler changed, set in
\* the stored row
Flushed(row, loaded, local) ==
    [column \in DOMAIN row |->
        IF local[column] # loaded[column] THEN local[column] ELSE row[column]]

\* lines 391-401: the query and the two checks
complete_session_query(w, user, khatm_id, session_id, completion_data) ==
    LET found == FindSession(user, khatm_id, session_id) IN
    /\ in_flight[w].pc = "idle"
    /\ IF found = {}
       THEN /\ response' = [op |-> "complete_session", status |-> 404,
                            detail |-> "Session not found"]
            /\ UNCHANGED in_flight
       ELSE LET session == CHOOSE s \in found : TRUE IN
            IF AlreadyCompleted(session)
            THEN /\ response' = [op |-> "complete_session", status |-> 400,
                                 detail |-> "Session already completed"]
                 /\ UNCHANGED in_flight
            ELSE /\ in_flight' = [in_flight EXCEPT ![w] =
                        [Idle EXCEPT !.pc = "checked",
                                     !.completion_data = {completion_data},
                                     !.session_loaded = {session},
                                     !.session = {session}]]
                 /\ UNCHANGED response
    /\ UNCHANGED <<khatms, khatm_sessions>>

\* lines 404-417: the session object is changed, session.khatm loads the
\* schedule's row as it is stored now, and the counters are computed from it
complete_session_update(w, now) ==
    /\ in_flight[w].pc = "checked"
    /\ LET session == CHOOSE s \in in_flight[w].session : TRUE
           completion_data == CHOOSE c \in in_flight[w].completion_data : TRUE
           khatm == KhatmOf(session)
       IN  in_flight' = [in_flight EXCEPT
               ![w].pc = "updated",
               ![w].session = {CompletedSession(session, completion_data, now)},
               ![w].khatm_loaded = {khatm},
               ![w].khatm = {ProgressedKhatm(khatm, session)}]
    /\ UNCHANGED <<khatms, khatm_sessions, response>>

\* lines 419-428: commit writes the changed columns of both rows, then the
\* response is built
complete_session_commit(w) ==
    /\ in_flight[w].pc = "updated"
    /\ LET loaded == CHOOSE s \in in_flight[w].session_loaded : TRUE
           session == CHOOSE s \in in_flight[w].session : TRUE
           khatm_loaded == CHOOSE k \in in_flight[w].khatm_loaded : TRUE
           khatm == CHOOSE k \in in_flight[w].khatm : TRUE
           session_row == CHOOSE s \in khatm_sessions : s.id = loaded.id
           khatm_row == CHOOSE k \in khatms : k.id = khatm.id
           khatm2 == Flushed(khatm_row, khatm_loaded, khatm)
       IN  /\ khatm_sessions' = (khatm_sessions \ {session_row})
                \cup {Flushed(session_row, loaded, session)}
           /\ khatms' = (khatms \ {khatm_row}) \cup {khatm2}
           /\ response' = [op |-> "complete_session", status |-> 200,
                           completed_sessions |-> khatm2.completed_sessions,
                           total_sessions |-> khatm2.total_sessions]
    /\ in_flight' = [in_flight EXCEPT ![w].pc = "done"]

-----------------------------------------------------------------------------
(* register, create_guest and social_login: routers/auth.py                *)
(*                                                                         *)
(* A username is the sequence of its parts between underscores: "ali_1" is *)
(* <<"ali", "1">>.  A display name is the sequence of its words between    *)
(* spaces, so that name.lower().replace(" ", "_") lowers each word and     *)
(* keeps the sequence.  A nullable text column holds a set: NoText for     *)
(* NULL, a singleton otherwise.                                            *)

\* str(n) of a small positive integer
Decimal(n) ==
    CASE n = 1 -> "1" [] n = 2 -> "2" [] n = 3 -> "3" [] n = 4 -> "4"
      [] n = 5 -> "5" [] n = 6 -> "6" [] n = 7 -> "7" [] n = 8 -> "8"
      [] n = 9 -> "9"

\* str.lower() of one word
lower(word) == CASE word = "Ali" -> "ali" [] OTHER -> word

\* models.py lines 9-31: a row as User(...) builds it, the remaining columns
\* at their defaults
User(id, username, email, password_hash, is_guest, google_id, facebook_id) ==
    [id |-> id, username |-> username, email |-> email,
     password_hash |-> password_hash, is_guest |-> is_guest,
     google_id |-> google_id, facebook_id |-> facebook_id,
     last_login |-> NULL, is_admin |-> FALSE, is_active |-> TRUE]

\* models.py lines 10, 11, 16 and 17: the INSERT breaks a unique column
\* (NULLs never collide)
IntegrityError(user) ==
    \E u \in users :
        \/ u.username = user.username
        \/ (user.email # NoText /\ u.email = user.email)
        \/ (user.google_id # NoText /\ u.google_id = user.google_id)
        \/ (user.facebook_id # NoText /\ u.facebook_id = user.facebook_id)

\* db.add(user); commit; refresh; create_access_token; return: the row is
\* stored and a token for str(user.id) handed out, or the commit raises
AddUser(op, user) ==
    IF IntegrityError(user)
    THEN /\ response' = [op |-> op, status |-> 500, detail |-> "IntegrityError"]
         /\ UNCHANGED users
    ELSE /\ users' = users \cup {user}
         /\ response' = [op |-> op, status |-> 200, sub |-> Str(user.id),
                         username |-> user.username]

\* variant of lines 76-79 in which the lookup never finds a row
UsernameTaken_Never(username) == FALSE

\* routers/auth.py lines 76-79, 177-180 and 244-247:
\* select(User).where(User.username == username) finds a row
UsernameTaken(username) == \E u \in users : u.username = username

\* routers/auth.py lines 69-111
register(user_data) ==
    IF UsernameTaken(user_data.username)
    THEN /\ response' = [op |-> "register", status |-> 400,
                         detail |-> "Username already registered"]
         /\ UNCHANGED users
    ELSE AddUser("register",
                 User(NextId(users), user_data.username, NoText,
                      {user_data.password}, FALSE, NoText, NoText))

\* secrets.choice: the eight random characters
RandomStrings == {"k3x9q2ab", "guestusr"}

\* routers/auth.py lines 63-66
generate_guest_username == {<<"guest", r>> : r \in RandomStrings}

\* routers/auth.py lines 167-209: the loop of lines 176-182 draws names until
\* one is free, so the request ends with any free name
create_guest ==
    \E username \in generate_guest_username :
        /\ ~UsernameTaken(username)
        /\ AddUser("create_guest",
                   User(NextId(users), username, NoText, NoText, TRUE,
                        NoText, NoText))

\* routers/auth.py lines 220-229: the row of the social id; every provider
\* but "google" is looked up as facebook
SocialUser(social_data) ==
    IF social_data.provider = "google"
    THEN {u \in users : u.google_id = {social_data.social_id}}
    ELSE {u \in users : u.facebook_id = {social_data.social_id}}

\* routers/auth.py line 238: None and "" are both falsy; social_id[:8] is the
\* head of the id
base_username(social_data) ==
    IF social_data.name # <<>>
    THEN [i \in DOMAIN social_data.name |-> lower(social_data.name[i])]
    ELSE <<"user", social_data.social_id.head>>

\* routers/auth.py lines 239-250: base_username, then base_username_1,
\* base_username_2, ... until a name is free
RECURSIVE UniqueUsername(_, _, _)
UniqueUsername(base, username, counter) ==
    IF ~UsernameTaken(username)
    THEN username
    ELSE UniqueUsername(base, base \o <<Decimal(counter)>>, counter + 1)

\* routers/auth.py lines 212-279
social_login(social_data, now) ==
    IF SocialUser(social_data) # {}
    THEN LET user == CHOOSE u \in SocialUser(social_data) : TRUE IN
         /\ users' = (users \ {user}) \cup {[user EXCEPT !.last_login = now]}
         /\ response' = [op |-> "social_login", status |-> 200,
                         sub |-> Str(user.id), username |-> user.username]
    ELSE LET base == base_username(social_data) IN
         AddUser("social_login",
                 User(NextId(users), UniqueUsername(base, base, 1),
                      social_data.email, NoText, FALSE,
                      IF social_data.provider = "google"
                      THEN {social_data.social_id} ELSE NoText,
                      IF social_data.provider = "facebook"
                      THEN {social_data.social_id} ELSE NoText))

-----------------------------------------------------------------------------
(* Requests                                                                *)

\* the ids of the accounts that own schedules in the creation and lifecycle
\* specifications
Users == 1..MaxUsers

\* the administrator's id
ADMIN_ID == MaxUsers + 1

\* every account: the users and the administrator
AccountIds == Users \cup {ADMIN_ID}

\* models.py lines 6-31: the rows of the users table
Accounts ==
    {[id |-> u, username |-> <<"account", Decimal(u)>>, email |-> NoText,
      password_hash |-> {"secret"}, is_guest |-> FALSE,
      google_id |-> NoText, facebook_id |-> NoText, last_login |-> NULL,
      is_admin |-> (u = ADMIN_ID), is_active |-> TRUE] : u \in AccountIds}

\* datetime.utcnow(): the model keeps one value, so a timestamp is told apart
\* from NULL only
Clock == {"utcnow"}

TimesOfDay == 0..(TicksPerDay - 1)

\* KhatmCreate bodies
CreateData(starts, ends, freqs, days, times) ==
    [start_date : starts, end_date : ends, frequency_type : freqs,
     reading_days : days, reading_time : times]

DateTimes(days, tods) == {DateTime(d, t) : d \in days, t \in tods}

\* reading_days values: absent, empty, mixed case, repeated, unknown names,
\* and more entries than there are verses
ReadingDaysInputs ==
    {NULL, <<>>, <<"Mon">>, <<"xyz">>, <<"">>, <<"mon", "mon">>, <<"wed", "SUN">>,
     SubSeq(<<"mon", "mon", "mon", "mon", "mon", "mon">>, 1, MaxVerses + 1)}

\* creation requests over the bounded calendar, starting on a Monday or a
\* Thursday, read in the last tick of the day
BuildData(freqs, days) ==
    CreateData(DateTimes({0, 3}, TimesOfDay), DateTimes(0..MaxEndDay, TimesOfDay),
               freqs, days, {TicksPerDay - 1})

BuildInputs == BuildData({"daily", "weekly", "custom"}, ReadingDaysInputs)

\* the creation requests of the session lifecycle: two days, and one day
\* more than there are verses
LifecycleInputs ==
    CreateData({DateTime(0, 0)}, {DateTime(1, 0), DateTime(MaxVerses, 0)},
               {"daily"}, {NULL}, {0})
    \cup CreateData({DateTime(0, 0)}, {DateTime(1, 0)},
                    {"weekly"}, {<<>>, <<"Mon", "tue">>, <<"sun">>}, {0})
    \cup CreateData({DateTime(0, 0)}, {DateTime(1, 0)},
                    {"custom"}, {NULL, <<"mon">>}, {0})

\* SessionComplete bodies
CompletionInputs ==
    {[verses_read |-> 0, last_verse_id |-> NoId],
     [verses_read |-> 2, last_verse_id |-> SomeId(1)]}

\* SessionSkip bodies
SkipInputs == {[reason |-> "busy"]}

\* KhatmUpdate bodies, exclude_unset
UpdateInputs == {<<>>, [is_active |-> FALSE], [is_active |-> TRUE]}

\* path parameters: every stored id and one that is not stored
KhatmIds == {k.id : k \in khatms} \cup {NextId(khatms)}

SessionIds == {s.id : s \in khatm_sessions} \cup {NextId(khatm_sessions)}

-----------------------------------------------------------------------------
(* Specifications                                                          *)

\* the accounts are registered and own nothing yet
Init ==
    /\ khatms = {}
    /\ khatm_sessions = {}
    /\ response = [op |-> "none", status |-> 0]
    /\ users = Accounts
    /\ bookmarks = {}
    /\ verse_comments = {}
    /\ verse_reports = {}
    /\ in_flight = [w \in Workers |-> Idle]

\* one schedule is explored at a time
CreateRequest ==
    /\ khatms = {}
    /\ \E user \in Users, data \in LifecycleInputs : create_khatm(user, data)
    /\ UNCHANGED accounts
    /\ UNCHANGED in_flight

CompleteRequest ==
    /\ \E user \in Users, khatm_id \in KhatmIds, session_id \in SessionIds,
       completion_data \in CompletionInputs, now \in Clock :
        complete_session(user, khatm_id, session_id, completion_data, now)
    /\ UNCHANGED accounts
    /\ UNCHANGED in_flight

SkipRequest ==
    /\ \E user \in Users, khatm_id \in KhatmIds, session_id \in SessionIds,
       skip_data \in SkipInputs, now \in Clock :
        skip_session(user, khatm_id, session_id, skip_data, now)
    /\ UNCHANGED accounts
    /\ UNCHANGED in_flight

UpdateRequest ==
    /\ \E user \in Users, khatm_id \in KhatmIds, update_data \in UpdateInputs :
        update_khatm(user, khatm_id, update_data)
    /\ UNCHANGED accounts
    /\ UNCHANGED in_flight

DeleteRequest ==
    /\ \E user \in Users, khatm_id \in KhatmIds : delete_khatm(user, khatm_id)
    /\ UNCHANGED accounts
    /\ UNCHANGED in_flight

Next ==
    \/ CreateRequest
    \/ CompleteRequest
    \/ SkipRequest
    \/ UpdateRequest
    \/ DeleteRequest

Spec == Init /\ [][Next]_vars

\* schedule creation alone, over every request of BuildInputs
BuildRequest ==
    /\ khatms = {}
    /\ \E user \in Users, data \in BuildInputs : create_khatm(user, data)
    /\ UNCHANGED accounts
    /\ UNCHANGED in_flight

NextBuild == BuildRequest

SpecBuild == Init /\ [][NextBuild]_vars

\* one schedule at a time, and every account sends every schedule request
\* for it: its owner and the accounts that do not own it
SharedInputs ==
    CreateData({DateTime(0, 0)}, {DateTime(1, 0)}, {"daily"}, {NULL}, {0})

SharedCompletionInputs == {[verses_read |-> 0, last_verse_id |-> NoId]}

SharedUpdateInputs == {[is_active |-> FALSE]}

SharedCreate ==
    /\ khatms = {}
    /\ \E user \in AccountIds, data \in SharedInputs : create_khatm(user, data)
    /\ UNCHANGED accounts
    /\ UNCHANGED in_flight

SharedDetails ==
    /\ \E user \in AccountIds, khatm_id \in KhatmIds :
          get_khatm_details(user, khatm_id)
    /\ UNCHANGED accounts
    /\ UNCHANGED in_flight

SharedSessionDetails ==
    /\ \E user \in AccountIds, khatm_id \in KhatmIds, session_id \in SessionIds :
          get_session_details(user, khatm_id, session_id)
    /\ UNCHANGED accounts
    /\ UNCHANGED in_flight

SharedProgress ==
    /\ \E user \in AccountIds, khatm_id \in KhatmIds :
          get_khatm_progress(user, khatm_id)
    /\ UNCHANGED accounts
    /\ UNCHANGED in_flight

SharedComplete ==
    /\ \E user \in AccountIds, khatm_id \in KhatmIds, session_id \in SessionIds,
          completion_data \in SharedCompletionInputs, now \in Clock :
          complete_session(user, khatm_id, session_id, completion_data, now)
    /\ UNCHANGED accounts
    /\ UNCHANGED in_flight

SharedSkip ==
    /\ \E user \in AccountIds, khatm_id \in KhatmIds, session_id \in SessionIds,
          skip_data \in SkipInputs, now \in Clock :
          skip_session(user, khatm_id, session_id, skip_data, now)
    /\ UNCHANGED accounts
    /\ UNCHANGED in_flight

SharedUpdate ==
    /\ \E user \in AccountIds, khatm_id \in KhatmIds,
          update_data \in SharedUpdateInputs :
          update_khatm(user, khatm_id, update_data)
    /\ UNCHANGED accounts
    /\ UNCHANGED in_flight

SharedDelete ==
    /\ \E user \in AccountIds, khatm_id \in KhatmIds : delete_khatm(user, khatm_id)
    /\ UNCHANGED accounts
    /\ UNCHANGED in_flight

NextShared ==
    \/ SharedCreate
    \/ SharedDetails
    \/ SharedSessionDetails
    \/ SharedProgress
    \/ SharedComplete
    \/ SharedSkip
    \/ SharedUpdate
    \/ SharedDelete

SpecShared == Init /\ [][NextShared]_vars

\* several schedules side by side, as many as there are accounts, of one
\* session or of two: the users create them, complete their sessions and
\* delete them
SeveralInputs ==
    CreateData({DateTime(0, 0)}, {DateTime(0, 0), DateTime(1, 0)},
               {"daily"}, {NULL}, {0})

SeveralCreate ==
    /\ NextId(khatms) <= Cardinality(AccountIds)
    /\ \E user \in Users, data \in SeveralInputs : create_khatm(user, data)
    /\ UNCHANGED accounts
    /\ UNCHANGED in_flight

SeveralComplete ==
    /\ \E user \in Users, khatm_id \in KhatmIds, session_id \in SessionIds,
          completion_data \in SharedCompletionInputs, now \in Clock :
          complete_session(user, khatm_id, session_id, completion_data, now)
    /\ UNCHANGED accounts
    /\ UNCHANGED in_flight

SeveralDelete ==
    /\ \E user \in Users, khatm_id \in KhatmIds : delete_khatm(user, khatm_id)
    /\ UNCHANGED accounts
    /\ UNCHANGED in_flight

NextSeveral ==
    \/ SeveralCreate
    \/ SeveralComplete
    \/ SeveralDelete

SpecSeveral == Init /\ [][NextSeveral]_vars

\* the credentials of a request: no Authorization header, a bearer token the
\* application did not sign, one it signed without a subject, and the tokens
\* it issued to the users
Credentials ==
    {[scheme |-> "none", signed |-> FALSE, sub |-> NoSub]}
    \cup {[scheme |-> "bearer", signed |-> FALSE, sub |-> SubOf(u)] : u \in Users}
    \cup {[scheme |-> "bearer", signed |-> TRUE, sub |-> NoSub]}
    \cup {[scheme |-> "bearer", signed |-> TRUE, sub |-> SubOf(u)] : u \in Users}

\* the same and the token of the administrator
AdminCredentials ==
    Credentials \cup {[scheme |-> "bearer", signed |-> TRUE, sub |-> SubOf(ADMIN_ID)]}

\* a verse of the corpus and an id past its end
VerseIds == {1, TOTAL_QURAN_VERSES + 1}

AccountInputs ==
    CreateData({DateTime(0, 0)}, {DateTime(0, 0)}, {"daily"}, {NULL}, {0})

BookmarkInputs == {[verse_id |-> 1]}

CommentInputs == {[content |-> "first", is_public |-> TRUE]}

ReportInputs == {[report_type |-> "other"]}

\* the users and what they own: every request is sent with every
\* credentials; a user creates one schedule, one comment and one report, and
\* the administrator deletes users
KhatmListRequest ==
    /\ \E credentials \in Credentials : get_user_khatms(credentials, TRUE)
    /\ UNCHANGED in_flight

KhatmCreateRequest ==
    /\ \E credentials \in Credentials, data \in AccountInputs :
           /\ \A k \in khatms : SubOf(k.user_id) # credentials.sub
           /\ post_khatm(credentials, data)
    /\ UNCHANGED in_flight

BookmarkListRequest ==
    /\ \E credentials \in Credentials : get_bookmarks(credentials)
    /\ UNCHANGED in_flight

BookmarkCreateRequest ==
    /\ \E credentials \in Credentials, bookmark_data \in BookmarkInputs :
           create_bookmark(credentials, bookmark_data)
    /\ UNCHANGED in_flight

CommentCreateRequest ==
    /\ \E credentials \in Credentials, verse_id \in VerseIds,
          comment_data \in CommentInputs :
           /\ \A c \in verse_comments : SubOf(c.user_id) # credentials.sub
           /\ create_comment(credentials, verse_id, comment_data)
    /\ UNCHANGED in_flight

ReportCreateRequest ==
    /\ \E credentials \in Credentials, verse_id \in VerseIds,
          report_data \in ReportInputs :
           /\ \A r \in verse_reports : SubOf(r.user_id) # credentials.sub
           /\ create_report(credentials, verse_id, report_data)
    /\ UNCHANGED in_flight

UserDeleteRequest ==
    /\ \E credentials \in AdminCredentials, user_id \in AccountIds :
           delete_user(credentials, user_id)
    /\ UNCHANGED in_flight

NextAccounts ==
    \/ KhatmListRequest
    \/ KhatmCreateRequest
    \/ BookmarkListRequest
    \/ BookmarkCreateRequest
    \/ CommentCreateRequest
    \/ ReportCreateRequest
    \/ UserDeleteRequest

SpecAccounts == Init /\ [][NextAccounts]_vars

\* the tokens the application issued to the accounts
Tokens == {[scheme |-> "bearer", signed |-> TRUE, sub |-> SubOf(u)] : u \in AccountIds}

\* CommentCreate bodies, public and private
VisibilityInputs == {[content |-> "first", is_public |-> pub] : pub \in BOOLEAN}

\* CommentUpdate bodies
CommentUpdateInputs == {[content |-> "edited"]}

\* ModerationAction bodies
ModerationInputs ==
    {[action |-> a] : a \in {"approve", "decline", "delete", "hide"}}

\* path parameters: every stored comment id and one that is not stored
CommentIds == {c.id : c \in verse_comments} \cup {NextId(verse_comments)}

\* the comments of one verse: every account writes one comment at a time,
\* edits comments and lists them, and the administrator moderates them; the
\* comment ids stay within the number of the accounts
CommentWrite ==
    /\ \E credentials \in Tokens, comment_data \in VisibilityInputs :
           /\ NextId(verse_comments) <= Cardinality(AccountIds)
           /\ \A c \in verse_comments : SubOf(c.user_id) # credentials.sub
           /\ create_comment(credentials, 1, comment_data)
    /\ UNCHANGED in_flight

CommentEdit ==
    /\ \E credentials \in Tokens, comment_id \in CommentIds,
          comment_data \in CommentUpdateInputs :
           update_comment(credentials, 1, comment_id, comment_data)
    /\ UNCHANGED in_flight

CommentModerate ==
    /\ \E credentials \in Tokens, comment_id \in CommentIds,
          action \in ModerationInputs, now \in Clock :
           moderate_comment(credentials, comment_id, action, now)
    /\ UNCHANGED in_flight

CommentList ==
    /\ \E credentials \in Tokens : get_verse_comments(credentials, 1)
    /\ UNCHANGED in_flight

NextComments ==
    \/ CommentWrite
    \/ CommentEdit
    \/ CommentModerate
    \/ CommentList

SpecComments == Init /\ [][NextComments]_vars


\* ---- registration: register, create_guest and social_login ----
\* UserCreate, routers/auth.py lines 26-28
RegisterInputs ==
    {[username |-> n, password |-> "secret"] :
        n \in {<<"ali">>, <<"ali", "1">>, <<"guest", "k3x9q2ab">>,
               <<"user", "10203040">>}}

\* the social ids requests come with: two ids with the same first eight
\* characters
SocialIds ==
    {[head |-> "10203040", tail |-> ""], [head |-> "10203040", tail |-> "5"]}

\* SocialLogin, routers/auth.py lines 39-44
SocialInputs ==
    {[provider |-> p, social_id |-> i, name |-> n, email |-> e] :
        p \in {"google", "facebook", "twitter"}, i \in SocialIds,
        n \in {<<>>, <<"Ali">>}, e \in {NoText, {"ali@example.org"}}}

\* the users table takes two rows more than the accounts it starts with
UsersFull == NextId(users) > ADMIN_ID + 2

RegisterRequest ==
    /\ ~UsersFull
    /\ \E user_data \in RegisterInputs : register(user_data)
    /\ UNCHANGED <<khatms, khatm_sessions, bookmarks, verse_comments, verse_reports>>
    /\ UNCHANGED in_flight

GuestRequest ==
    /\ ~UsersFull
    /\ create_guest
    /\ UNCHANGED <<khatms, khatm_sessions, bookmarks, verse_comments, verse_reports>>
    /\ UNCHANGED in_flight

SocialRequest ==
    /\ ~UsersFull
    /\ \E social_data \in SocialInputs, now \in Clock :
           social_login(social_data, now)
    /\ UNCHANGED <<khatms, khatm_sessions, bookmarks, verse_comments, verse_reports>>
    /\ UNCHANGED in_flight

NextRegistration ==
    \/ RegisterRequest
    \/ GuestRequest
    \/ SocialRequest

SpecRegistration == Init /\ [][NextRegistration]_vars

\* ---- two complete_session requests served at the same time ----
\* a daily schedule of two days: two sessions
RaceInputs ==
    CreateData({DateTime(0, 0)}, {DateTime(1, 0)}, {"daily"}, {NULL}, {0})

RaceCreate ==
    /\ khatms = {}
    /\ \E user \in Users, data \in RaceInputs : create_khatm(user, data)
    /\ UNCHANGED accounts
    /\ UNCHANGED in_flight

RaceQuery ==
    /\ \E w \in Workers, user \in Users, khatm_id \in KhatmIds,
          session_id \in SessionIds, completion_data \in CompletionInputs :
           complete_session_query(w, user, khatm_id, session_id, completion_data)
    /\ UNCHANGED accounts

RaceUpdate ==
    /\ \E w \in Workers, now \in Clock : complete_session_update(w, now)
    /\ UNCHANGED accounts

RaceCommit ==
    /\ \E w \in Workers : complete_session_commit(w)
    /\ UNCHANGED accounts

NextRace ==
    \/ RaceCreate
    \/ RaceQuery
    \/ RaceUpdate
    \/ RaceCommit

SpecRace == Init /\ [][NextRace]_vars

\* ---- blocked accounts: every account sends requests, the administrator
\* blocks, unblocks and deletes ----
\* UserLogin, routers/auth.py lines 31-33
LoginInputs ==
    {[username |-> <<"account", Decimal(u)>>, password |-> p] :
        u \in AccountIds, p \in {"secret", "wrong"}}

BlockRequest ==
    /\ \E credentials \in Tokens, user_id \in AccountIds :
           block_user(credentials, user_id)
    /\ UNCHANGED in_flight

UnblockRequest ==
    /\ \E credentials \in Tokens, user_id \in AccountIds :
           unblock_user(credentials, user_id)
    /\ UNCHANGED in_flight

RemoveRequest ==
    /\ \E credentials \in Tokens, user_id \in AccountIds :
           delete_user(credentials, user_id)
    /\ UNCHANGED in_flight

LoginRequest ==
    /\ \E user_data \in LoginInputs, now \in Clock : login(user_data, now)
    /\ UNCHANGED in_flight

BlockedBookmarkList ==
    /\ \E credentials \in Tokens : get_bookmarks(credentials)
    /\ UNCHANGED in_flight

BlockedBookmarkCreate ==
    /\ \E credentials \in Tokens, bookmark_data \in BookmarkInputs :
           create_bookmark(credentials, bookmark_data)
    /\ UNCHANGED in_flight

NextBlocking ==
    \/ BlockRequest
    \/ UnblockRequest
    \/ RemoveRequest
    \/ LoginRequest
    \/ BlockedBookmarkList
    \/ BlockedBookmarkCreate

SpecBlocking == Init /\ [][NextBlocking]_vars

-----------------------------------------------------------------------------
(* Properties of schedule creation                                         *)

\* the schedule the last request created and the handler accepted
Accepted(k) ==
    response.op = "create_khatm" /\ response.status = 200 /\ response.id = k.id

RECURSIVE SumVerseCount(_)
SumVerseCount(S) ==
    IF S = {} THEN 0
    ELSE LET s == CHOOSE x \in S : TRUE IN s.verse_count + SumVerseCount(S \ {s})

\* calendar days of [start_date, end_date]
CalendarDays(k) == k.start_date.day .. k.end_date.day

\* weekday abbreviation of a calendar day, lower case
WeekdayOf(d) == <<"mon", "tue", "wed", "thu", "fri", "sat", "sun">>[(d % 7) + 1]

\* the day's weekday is in reading_days, compared case-insensitively
InReadingDays(d, days) ==
    /\ days # NULL
    /\ \E i \in 1..Len(days) : Lower(days[i]) = WeekdayOf(d)

QualifyingDays(k) ==
    {d \in CalendarDays(k) : InReadingDays(d, k.reading_days)}

\* C1: the sessions of every accepted schedule, in session_number order
\* 1, 2, 3, ..., partition the positions 1..N: the first starts at 1, each
\* later one starts right after the one before, the last ends at N, and the
\* verse counts add up to N.
C1_RangesPartitionCorpus ==
    \A k \in khatms : Accepted(k) =>
        LET S == SessionsOf(k.id)
            n == Cardinality(S)
        IN  /\ n >= 1
            /\ {s.session_number : s \in S} = 1..n
            /\ \A s \in S : s.session_number = 1 => s.start_verse_global_number = 1
            /\ \A s, t \in S : t.session_number = s.session_number + 1 =>
                  t.start_verse_global_number = s.end_verse_global_number + 1
            /\ \A s \in S : s.session_number = n =>
                  s.end_verse_global_number = TOTAL_QURAN_VERSES
            /\ SumVerseCount(S) = TOTAL_QURAN_VERSES

\* C2: with base = N // total_sessions and remainder = N % total_sessions,
\* every stored session numbered <= remainder has base + 1 verses and every
\* other stored session has base verses.
C2_RemainderToFirstSessions ==
    \A k \in khatms : \A s \in SessionsOf(k.id) :
        LET base == k.total_verses \div k.total_sessions
            remainder == k.total_verses - k.total_sessions * base
        IN  /\ k.total_verses = TOTAL_QURAN_VERSES
            /\ s.verse_count = IF s.session_number <= remainder THEN base + 1 ELSE base

\* a schedule whose sessions do not all have the same size: the first
\* remainder ones are one verse longer than the rest
C2_Witness ==
    \E k \in khatms : \E s, t \in SessionsOf(k.id) :
        /\ s.session_number < t.session_number
        /\ s.verse_count = t.verse_count + 1
        /\ Cardinality(SessionsOf(k.id)) = k.total_sessions

\* C3: a daily schedule over K >= 1 calendar days, both endpoints counted,
\* has total_sessions = K and exactly K sessions, one on each day of the range.
C3_DailyOnePerCalendarDay ==
    \A k \in khatms :
        (k.frequency_type = "daily" /\ Cardinality(CalendarDays(k)) >= 1) =>
            LET S == SessionsOf(k.id) IN
            /\ k.total_sessions = Cardinality(CalendarDays(k))
            /\ Cardinality(S) = Cardinality(CalendarDays(k))
            /\ {s.scheduled_date.day : s \in S} = CalendarDays(k)

\* C4: a weekly schedule has total_sessions = the number of calendar days of
\* the range whose weekday is in reading_days, has that many sessions, and
\* every session is on such a weekday.
C4_WeeklyCountsReadingDays ==
    \A k \in khatms : k.frequency_type = "weekly" =>
        LET S == SessionsOf(k.id) IN
        /\ k.total_sessions = Cardinality(QualifyingDays(k))
        /\ Cardinality(S) = Cardinality(QualifyingDays(k))
        /\ \A s \in S : InReadingDays(s.scheduled_date.day, k.reading_days)

\* C5: a custom schedule has total_sessions = the number of calendar days of
\* the range whose weekday is in reading_days, as in weekly mode.
C5_CustomCountsReadingDays ==
    \A k \in khatms : k.frequency_type = "custom" =>
        k.total_sessions = Cardinality(QualifyingDays(k))

\* no calendar day of the requested range qualifies under the frequency rule
NoQualifyingDay(data) ==
    \A d \in data.start_date.day .. data.end_date.day :
        /\ data.frequency_type # "daily"
        /\ ~InReadingDays(d, data.reading_days)

NoQualifyingDayInputs == {data \in BuildInputs : NoQualifyingDay(data)}

\* the step is a refusal with a 400 that stores nothing
RejectedStep ==
    /\ response'.status = 400
    /\ khatms' = khatms
    /\ khatm_sessions' = khatm_sessions

\* C6: a creation request no calendar day of whose range qualifies is
\* rejected with a validation error and stores nothing: every step is such a
\* refusal or is not the handling of such a request.
C6_NoQualifyingDayRejected ==
    [][RejectedStep \/ \A user \in Users, data \in NoQualifyingDayInputs :
                          ~create_khatm(user, data)]_vars

\* weekly or custom requests whose reading_days is missing or empty
MissingReadingDaysInputs == BuildData({"weekly", "custom"}, {NULL, <<>>})

\* C7: a weekly or custom creation request whose reading_days is missing or
\* empty is rejected with a validation error, and the schedules and sessions
\* stored are the same after it as before: every step is such a refusal or is
\* not the handling of such a request.
C7_MissingReadingDaysRejected ==
    [][RejectedStep \/ \A user \in Users, data \in MissingReadingDaysInputs :
                          ~create_khatm(user, data)]_vars

\* a creation request was refused for its missing reading days
C7_Witness ==
    /\ response.op = "create_khatm"
    /\ response.status = 400
    /\ response.detail = "Reading days are required for weekly/custom frequency"
    /\ khatms = {}
    /\ khatm_sessions = {}


-----------------------------------------------------------------------------
(* Properties of the session lifecycle                                     *)

\* C8: complete_session on a session that is already completed is refused
\* with a 400 and leaves every session and every schedule as it was: every
\* step is such a refusal or is not the handling of such a request.
C8_CompleteTwiceRejected ==
    [][response'.op # "complete_session" \/ RejectedStep \/
          \A s \in khatm_sessions : s.status = "completed" =>
              \A user \in Users, completion_data \in CompletionInputs, now \in Clock :
                  ~(/\ FindSession(user, s.khatm_id, s.id) # {}
                    /\ complete_session(user, s.khatm_id, s.id, completion_data, now))]_vars

\* a completed session was asked to be completed again and the request was
\* refused
C8_Witness ==
    /\ response.op = "complete_session"
    /\ response.status = 400
    /\ \E s \in khatm_sessions : s.status = "completed"

\* C9: right after the request that completes the last uncompleted session
\* of a schedule, the schedule has is_completed = true, is_active = false and
\* completed_sessions = total_sessions.
C9_AllCompletedFinishes ==
    \A k \in khatms :
        (/\ response.op = "complete_session"
         /\ response.status = 200
         /\ SessionsOf(k.id) # {}
         /\ \A s \in SessionsOf(k.id) : s.status = "completed") =>
            /\ k.is_completed
            /\ ~k.is_active
            /\ k.completed_sessions = k.total_sessions

\* C10: a session whose status is completed or skipped keeps that status in
\* every later state in which it is stored.
C10_TerminalStatusKept ==
    [][\A s \in khatm_sessions : s.status \in {"completed", "skipped"} =>
          \A t \in khatm_sessions' : t.id = s.id => t.status = s.status]_vars

\* the schedule with the same id after the step
KhatmAfter(k) == {k2 \in khatms' : k2.id = k.id}

\* the session with the same id after the step
SessionAfter(s) == {t \in khatm_sessions' : t.id = s.id}

\* C11: a successful skip_session changes nothing but the status, skipped_at
\* and skipped_reason of one session and leaves every schedule as it was; and
\* no later step changes completed_verses of a schedule together with one of
\* its skipped sessions, so the verses of a skipped session are never added.
C11_SkipLeavesProgress ==
    [][/\ (response'.op = "skip_session" /\ response'.status = 200) =>
             /\ khatms' = khatms
             /\ \E s \in khatm_sessions :
                   /\ khatm_sessions' \ khatm_sessions \subseteq
                         {[s EXCEPT !.status = "skipped",
                                    !.skipped_at = sa,
                                    !.skipped_reason = sr] :
                              sa \in Clock, sr \in {d.reason : d \in SkipInputs}}
                   /\ khatm_sessions \ khatm_sessions' \subseteq {s}
       /\ \A s \in khatm_sessions : s.status = "skipped" =>
             \A k \in khatms : \A k2 \in KhatmAfter(k) :
                 (k.id = s.khatm_id /\ k2.completed_verses # k.completed_verses)
                     => s \in khatm_sessions']_vars

\* C12: skip_session on a session that is completed or skipped is refused
\* with a 400 and leaves every session and every schedule as it was: every
\* step is such a refusal or is not the handling of such a request.
C12_SkipTerminalRejected ==
    [][response'.op # "skip_session" \/ RejectedStep \/
          \A s \in khatm_sessions : s.status \in {"completed", "skipped"} =>
              \A user \in Users, skip_data \in SkipInputs, now \in Clock :
                  ~(/\ FindSession(user, s.khatm_id, s.id) # {}
                    /\ skip_session(user, s.khatm_id, s.id, skip_data, now))]_vars

\* a skipped session was asked to be skipped again and the request was refused
C12_Witness ==
    /\ response.op = "skip_session"
    /\ response.status = 400
    /\ response.was = "skipped"
    /\ \E s \in khatm_sessions : s.status = "skipped" /\ s.skipped_at # NULL

\* C13: every stored schedule has completed_sessions <= total_sessions, and
\* one with completed_sessions = total_sessions is completed and inactive.
C13_CountersWithinTotal ==
    \A k \in khatms :
        /\ k.completed_sessions <= k.total_sessions
        /\ k.completed_sessions = k.total_sessions =>
              (k.is_completed /\ ~k.is_active)

\* C14: a successful complete_session leaves the session completed with the
\* supplied verses_read and last_verse_id stored on it, and the schedule with
\* completed_sessions one higher and completed_verses higher by the session's
\* verse_count, whatever verses_read is.
C14_CompleteCreditsPlannedRange ==
    [][response'.op # "complete_session" \/ response'.status # 200 \/
          \A s \in khatm_sessions :
              \A user \in Users, completion_data \in CompletionInputs, now \in Clock :
                  (/\ FindSession(user, s.khatm_id, s.id) # {}
                   /\ complete_session(user, s.khatm_id, s.id, completion_data, now))
                  => /\ \E t \in SessionAfter(s) :
                           /\ t.status = "completed"
                           /\ t.verses_read_count = completion_data.verses_read
                           /\ t.current_verse_id = completion_data.last_verse_id
                     /\ \E k2 \in KhatmAfter(KhatmOf(s)) :
                           /\ k2.completed_sessions = KhatmOf(s).completed_sessions + 1
                           /\ k2.completed_verses =
                                 KhatmOf(s).completed_verses + s.verse_count]_vars

\* a session was completed with verses_read different from its verse_count
C14_Witness ==
    /\ response.op = "complete_session"
    /\ response.status = 200
    /\ \E s \in khatm_sessions :
          /\ s.status = "completed"
          /\ s.verses_read_count # s.verse_count
          /\ s.current_verse_id = SomeId(1)
          /\ KhatmOf(s).completed_verses = s.verse_count
          /\ KhatmOf(s).completed_sessions = 1

\* C15: a stored schedule is stored together with all the sessions its
\* generation produces: the generation of its sessions does not fail, and the
\* stored sessions of the schedule are the generated ones.
C15_CreationAtomic ==
    \A k \in khatms :
        LET gen == generate_khatm_sessions(k, 1) IN
        /\ ~gen.raised
        /\ SessionsOf(k.id) = gen.sessions

\* the fields of a session that are fixed when the schedule is created
Planned(s) ==
    [id |-> s.id, khatm_id |-> s.khatm_id, session_number |-> s.session_number,
     scheduled_date |-> s.scheduled_date,
     start_verse_id |-> s.start_verse_id, end_verse_id |-> s.end_verse_id,
     start_verse_global_number |-> s.start_verse_global_number,
     end_verse_global_number |-> s.end_verse_global_number,
     verse_count |-> s.verse_count]

\* C16: complete_session, skip_session and update_khatm add no session,
\* remove none, and leave the session number, scheduled date, verse range,
\* global positions and verse count of every session as they were.
C16_PlannedFieldsKept ==
    [][response'.op \in {"complete_session", "skip_session", "update_khatm"} =>
          /\ {Planned(s) : s \in khatm_sessions'} = {Planned(s) : s \in khatm_sessions}
          /\ Cardinality(khatm_sessions') = Cardinality(khatm_sessions)]_vars

\* a schedule with a completed and a skipped session has just been updated
C16_Witness ==
    /\ response.op = "update_khatm"
    /\ response.status = 200
    /\ \E s, t \in khatm_sessions :
          /\ s.khatm_id = t.khatm_id
          /\ s.status = "completed"
          /\ t.status = "skipped"

-----------------------------------------------------------------------------
(* Properties of schedules side by side and of requests of other accounts  *)

\* C17: a delete_khatm of the owner that succeeds removes the schedule and
\* exactly the sessions with its khatm_id; every other schedule and every
\* other session is stored as before, and no stored session refers to the
\* deleted schedule.
C17_DeleteRemovesOwnSessions ==
    [][response'.op # "delete_khatm" \/ response'.status # 200 \/
          \A k \in khatms : delete_khatm(k.user_id, k.id) =>
              /\ khatms' = khatms \ {k}
              /\ khatm_sessions' = {s \in khatm_sessions : s.khatm_id # k.id}
              /\ \A s \in khatm_sessions' : s.khatm_id # k.id]_vars

\* a schedule was deleted and another one, with a completed session, is
\* still stored with all its sessions
C17_Witness ==
    /\ response.op = "delete_khatm"
    /\ response.status = 200
    /\ \E k \in khatms :
          /\ Cardinality(SessionsOf(k.id)) = k.total_sessions
          /\ \E s \in SessionsOf(k.id) : s.status = "completed"
    /\ Cardinality(khatm_sessions) < NextId(khatm_sessions) - 1

\* the step is a refusal with a 404 that carries a message only and changes
\* no schedule and no session
NotFoundStep ==
    /\ response'.status = 404
    /\ DOMAIN response' = {"op", "status", "detail"}
    /\ response'.detail \in {"Khatm not found", "Session not found"}
    /\ khatms' = khatms
    /\ khatm_sessions' = khatm_sessions

\* the step handles a schedule request of user for the schedule k or for one
\* of its sessions
AddressedBy(user, k) ==
    \/ get_khatm_details(user, k.id)
    \/ get_khatm_progress(user, k.id)
    \/ delete_khatm(user, k.id)
    \/ \E update_data \in SharedUpdateInputs : update_khatm(user, k.id, update_data)
    \/ \E s \in SessionsOf(k.id) :
          \/ get_session_details(user, k.id, s.id)
          \/ \E completion_data \in SharedCompletionInputs, now \in Clock :
                complete_session(user, k.id, s.id, completion_data, now)
          \/ \E skip_data \in SkipInputs, now \in Clock :
                skip_session(user, k.id, s.id, skip_data, now)

\* C18: get_khatm_details, get_session_details, complete_session,
\* skip_session, update_khatm, delete_khatm and get_khatm_progress sent by an
\* account for a schedule of another account are refused with a 404 that
\* carries none of the schedule's data, and change no schedule and no session.
C18_StrangerGetsNotFound ==
    [][NotFoundStep \/
          \A k \in khatms : \A user \in AccountIds \ {k.user_id} :
              ~AddressedBy(user, k)]_vars

\* a request to complete a session was refused as not found while the
\* schedule is stored with all its sessions and none of them is completed
C18_Witness ==
    /\ response.op = "complete_session"
    /\ response.status = 404
    /\ \E k \in khatms : Cardinality(SessionsOf(k.id)) = k.total_sessions
    /\ \A s \in khatm_sessions : s.status # "completed"
    /\ \E s \in khatm_sessions : s.status = "skipped"

-----------------------------------------------------------------------------
(* Properties of authentication and of the deletion of users               *)

\* credentials that are no valid authentication: no Authorization header, a
\* token the application did not sign, or a token whose subject is no stored
\* user
NoValidCredentials ==
    {c \in AdminCredentials :
        \/ c.scheme = "none"
        \/ ~c.signed
        \/ \A u \in users : SubOf(u.id) # c.sub}

\* the step is a refusal with a 401 or a 403 that stores nothing
UnauthenticatedStep ==
    /\ response'.status \in {401, 403}
    /\ khatms' = khatms
    /\ khatm_sessions' = khatm_sessions
    /\ users' = users
    /\ bookmarks' = bookmarks
    /\ verse_comments' = verse_comments
    /\ verse_reports' = verse_reports

\* the step handles a schedule list or create, bookmark list or create,
\* comment create or report create request sent with the credentials
SentWith(credentials) ==
    \/ get_user_khatms(credentials, TRUE)
    \/ \E data \in AccountInputs : post_khatm(credentials, data)
    \/ get_bookmarks(credentials)
    \/ \E bookmark_data \in BookmarkInputs : create_bookmark(credentials, bookmark_data)
    \/ \E verse_id \in VerseIds, comment_data \in CommentInputs :
          create_comment(credentials, verse_id, comment_data)
    \/ \E verse_id \in VerseIds, report_data \in ReportInputs :
          create_report(credentials, verse_id, report_data)

\* C19: a schedule list or create, bookmark list or create, comment create
\* or report create request sent without valid credentials is refused and
\* changes no table: every step is such a refusal or is not the handling of
\* such a request.
C19_UnauthenticatedRejected ==
    [][UnauthenticatedStep \/
          \A credentials \in NoValidCredentials : ~SentWith(credentials)]_vars

\* a request to create a bookmark was refused with a 401 while a user's
\* bookmark, comment, report and schedule are stored
C19_Witness ==
    /\ response.op = "create_bookmark"
    /\ response.status = 401
    /\ bookmarks # {}
    /\ verse_comments # {}
    /\ verse_reports # {}
    /\ khatms # {}

\* C20: after a delete_user that succeeds, no bookmark, comment, report or
\* schedule of the deleted user is stored, and no session of a schedule the
\* user had.
C20_DeleteUserLeavesNothing ==
    [][(response'.op = "delete_user" /\ response'.status = 200) =>
          LET user_id == response'.user_id IN
          /\ \A b \in bookmarks' : b.user_id # user_id
          /\ \A c \in verse_comments' : c.user_id # user_id
          /\ \A r \in verse_reports' : r.user_id # user_id
          /\ \A k \in khatms' : k.user_id # user_id
          /\ \A k \in khatms : k.user_id = user_id =>
                \A s \in khatm_sessions' : s.khatm_id # k.id]_vars

-----------------------------------------------------------------------------
(* Properties of the comments of a verse                                   *)

\* the comments on the verse that are public and approved or that the user
\* wrote
VisibleTo(user, verse_id) ==
    {c \in verse_comments :
        /\ c.verse_id = verse_id
        /\ \/ c.is_public /\ c.is_approved
           \/ c.user_id = user}

\* C21: get_verse_comments of a user who is no administrator returns exactly
\* the comments on the verse that are public and approved or that the user
\* wrote, whatever requests came before.
C21_CommentsVisibleToCaller ==
    [][response'.op # "get_verse_comments" \/ response'.status # 200 \/
          \A u \in users : ~u.is_admin =>
              \A credentials \in Tokens :
                  (credentials.sub = SubOf(u.id) /\ get_verse_comments(credentials, 1))
                      => response'.comments = VisibleTo(u.id, 1)]_vars

-----------------------------------------------------------------------------
(* Properties of registration                                              *)

\* the request of this step was register with this body
RegisterStep(user_data) == response'.op = "register" /\ register(user_data)

\* C22: registering a username that a user already has fails with 400 and
\* creates no user, and after every request no two users share a username.
C22_UsernamesUnique ==
    [][/\ \A user_data \in RegisterInputs :
              ((\E u \in users : u.username = user_data.username)
                   /\ RegisterStep(user_data))
                  => (response'.status = 400 /\ users' = users)
       /\ \A u, v \in users' : u.username = v.username => u = v]_vars

\* a register request for a taken username has been answered with 400
C22_Witness ==
    /\ response.op = "register"
    /\ response.status = 400
    /\ Cardinality(users) > Cardinality(Accounts)

-----------------------------------------------------------------------------
(* Properties of session generation                                        *)

\* the request body a stored schedule was created from
DataOf(k) ==
    [start_date |-> k.start_date, end_date |-> k.end_date,
     frequency_type |-> k.frequency_type, reading_days |-> k.reading_days,
     reading_time |-> k.reading_time]

CompletedOf(khatm_id) == {s \in SessionsOf(khatm_id) : s.status = "completed"}

\* C25: with requests executed one at a time, each schedule's
\* completed_sessions is the number of its completed sessions and its
\* completed_verses the sum of their verse_counts, so the progress query's
\* completed_sessions equals the completed entry of its session_stats.
C25_CountersMatchSessions ==
    \A k \in khatms :
        /\ k.completed_sessions = Cardinality(CompletedOf(k.id))
        /\ k.completed_verses = SumVerseCount(CompletedOf(k.id))
        /\ k.completed_sessions = SessionStats(k.id)["completed"]

\* a schedule with a completed and a skipped session
C25_Witness ==
    \E k \in khatms :
        /\ k.completed_sessions = 1
        /\ \E s \in SessionsOf(k.id) : s.status = "skipped"
        /\ \E s \in SessionsOf(k.id) : s.status = "completed" /\ s.verse_count > 1

\* C27: for every schedule that passes create_schedule's validation the
\* generation loop exits having stored total_sessions sessions or having
\* exhausted the corpus.
C27_GenerationTerminates ==
    \A k \in khatms :
        LET S == SessionsOf(k.id) IN
        /\ response.op = "create_khatm" => response.status = 200
        /\ Cardinality(S) = k.total_sessions \/ SumVerseCount(S) = TOTAL_QURAN_VERSES

\* C28: every session of a schedule has a scheduled calendar date within the
\* schedule's [start_date, end_date], in all three frequency modes.
C28_DatesWithinRange ==
    \A k \in khatms : \A s \in SessionsOf(k.id) :
        /\ k.start_date.day <= s.scheduled_date.day
        /\ s.scheduled_date.day <= k.end_date.day

\* C29: within a schedule the scheduled calendar days strictly increase with
\* session_number and the first is not before start_date, so the query of
\* get_today_session matches at most one session on any day.
C29_DatesStrictlyIncrease ==
    \A k \in khatms :
        /\ \A s, t \in SessionsOf(k.id) :
              s.session_number < t.session_number =>
                  s.scheduled_date.day < t.scheduled_date.day
        /\ \A s \in SessionsOf(k.id) : k.start_date.day <= s.scheduled_date.day
        /\ \A today \in {s.scheduled_date.day : s \in khatm_sessions} :
              Cardinality(TodaySessions(k.user_id, k.id, today)) <= 1

\* a schedule with two sessions more than a day apart
C29_Witness ==
    \E k \in khatms : \E s, t \in SessionsOf(k.id) :
        /\ t.session_number = s.session_number + 1
        /\ t.scheduled_date.day > s.scheduled_date.day + 1
        /\ TodaySessions(k.user_id, k.id, t.scheduled_date.day) = {t}

-----------------------------------------------------------------------------
(* Properties of requests served at the same time                          *)

\* the request of the thread has committed
Done(w) == in_flight[w].pc = "done"

\* the session the request of the thread asked for, as the request found it
SessionOf(w) == CHOOSE s \in in_flight[w].session_loaded : TRUE

\* the schedule's row as the request of the thread loaded it
KhatmLoadedBy(w) == CHOOSE k \in in_flight[w].khatm_loaded : TRUE

\* the least element of a set of integers
MinOf(S) == CHOOSE x \in S : \A y \in S : x <= y

\* the counters before either of the two requests committed
SessionsBefore ==
    MinOf({KhatmLoadedBy(w).completed_sessions : w \in Workers})

VersesBefore ==
    MinOf({KhatmLoadedBy(w).completed_verses : w \in Workers})

C26_NoCounterUpdateLost ==
    (/\ Done("a") /\ Done("b")
     /\ SessionOf("a").id # SessionOf("b").id
     /\ SessionOf("a").khatm_id = SessionOf("b").khatm_id) =>
        LET khatm == KhatmOf(SessionOf("a")) IN
        /\ khatm.completed_sessions = SessionsBefore + 2
        /\ khatm.completed_verses =
               VersesBefore + SessionOf("a").verse_count + SessionOf("b").verse_count

-----------------------------------------------------------------------------
(* Properties of blocked accounts                                          *)

\* the tokens of the users that are blocked
BlockedTokens ==
    {c \in Tokens : \E u \in users : SubOf(u.id) = c.sub /\ ~u.is_active}

\* the step handles an authenticated request sent with the credentials
AuthenticatedWith(credentials) ==
    \/ get_bookmarks(credentials)
    \/ \E bookmark_data \in BookmarkInputs : create_bookmark(credentials, bookmark_data)
    \/ \E user_id \in AccountIds :
          \/ block_user(credentials, user_id)
          \/ unblock_user(credentials, user_id)
          \/ delete_user(credentials, user_id)

\* the step is a refusal with a 403 that stores nothing
ForbiddenStep == response'.status = 403 /\ UnauthenticatedStep

\* C30: while a user is blocked, from the block_user that succeeded to the
\* unblock_user that succeeds, every authenticated request with a token of
\* the user is refused and changes nothing and login issues the user no
\* token; block_user and delete_user never succeed on an administrator, and
\* no administrator is ever inactive.
C30_BlockedUntilUnblocked ==
    [][/\ ForbiddenStep \/ \A credentials \in BlockedTokens : ~AuthenticatedWith(credentials)
       /\ \A u \in users : ~u.is_active =>
             /\ ~(response'.op = "login" /\ response'.status = 200
                    /\ response'.sub = Str(u.id))
             /\ \A v \in users' : (v.id = u.id /\ v.is_active) =>
                   /\ response'.op = "unblock_user"
                   /\ response'.status = 200
                   /\ response'.user_id = u.id
       /\ \A u \in users : (u.is_active /\ \E v \in users' : v.id = u.id /\ ~v.is_active) =>
             /\ response'.op = "block_user"
             /\ response'.status = 200
             /\ response'.user_id = u.id
       /\ \A u \in users : u.is_admin =>
             ~(/\ response'.op \in {"block_user", "delete_user"}
               /\ response'.status = 200
               /\ response'.user_id = u.id)
       /\ \A v \in users' : v.is_admin => v.is_active]_vars

\* a blocked user's request to create a bookmark was refused while the
\* bookmark the user created before the block is stored
C30_Witness ==
    /\ response.op = "create_bookmark"
    /\ response.status = 403
    /\ \E u \in users : ~u.is_active /\ \E b \in bookmarks : b.user_id = u.id
====
